---- MODULE Spec2Model ----
(***************************************************************************)
(* A model of the rust-code-analysis-check GitHub Action: the CheckRunner  *)
(* class (parseJson, executeCheck and their helpers) and the values that   *)
(* flow through it, driven by main and run of main.ts.                     *)
(*                                                                         *)
(* JavaScript values are tagged records: field t is the typeof tag, and a  *)
(* property of an object is defined iff it is in the record's DOMAIN.      *)
(* A string that JSON.parse would be handed is kept by what it denotes:    *)
(* either the JSON text of a value (isJson, json) or text that is not      *)
(* JSON at all (chars).                                                    *)
(***************************************************************************)
EXTENDS Integers, Sequences, FiniteSets, TLC

VARIABLES
    file_jsons,     \* CheckRunner.file_jsons
    file_metrics,   \* CheckRunner.file_metrics
    annotations,    \* CheckRunner.annotations
    env,            \* process.env.GITHUB_HEAD_REF
    pc,             \* where the run is: stream, awaitCreate, awaitUpdate, awaitCancel, done
    options,        \* the CheckOptions of the executeCheck call
    checkRunId,     \* executeCheck's local checkRunId
    bucket,         \* allMetricsCheck's local annotations (the current page)
    branch,         \* which check executeCheck entered: none, global, all
    caught,         \* the error bound in executeCheck's second catch clause
    calls,          \* requests handed to client.checks.create / client.checks.update
    replies,        \* history: how each request of calls was answered, in order
    stdout,         \* what core.error/warning/info wrote
    outcome,        \* how executeCheck ended: pending, returned, threw
    thrown,         \* the error executeCheck rejected with
    RcaExitCode,    \* run's RcaExitCode, the exit code of rust-code-analysis-cli
    failed,         \* the message main handed to core.setFailed, <<>> if none
    stage,          \* where main and run are: input, which, version, metrics, check, failed
    log,            \* history: every parseJson call, its line and how it ended
    extracted       \* history: every annotation addAnnotation pushed, in push order

vars == <<file_jsons, file_metrics, annotations, env, pc, options, checkRunId,
          bucket, branch, caught, calls, replies, stdout, outcome, thrown,
          RcaExitCode, failed, stage, log, extracted>>

runnerVars == <<file_jsons, file_metrics, annotations>>

-----------------------------------------------------------------------------
(* Bounds *)

\* number of stdout lines of the analysis tool handed to parseJson in one run
MaxLines == 2

-----------------------------------------------------------------------------
(* JavaScript values *)

JNull == [t |-> "null"]

JNumber(n) == [t |-> "number", n |-> n]

\* a string holding the JSON text of value v
JsonText(v) == [t |-> "string", isJson |-> TRUE, json |-> v]

\* a string that is not JSON
PlainText(s) == [t |-> "string", isJson |-> FALSE, chars |-> s]

EmptyObject == [t |-> "object"]

\* property lookup: is v.k defined
Has(v, k) == v.t = "object" /\ k \in DOMAIN v

\* `${x}` for a property that may be undefined
Interpolate(v, k) == IF Has(v, k) THEN v[k] ELSE "undefined"

Metrics(n) == [nargs |-> n]

\* the RcaFile shape
RcaFile(name, start_line, end_line, kind, metrics, spaces) ==
    [t |-> "object", name |-> name, start_line |-> start_line,
     end_line |-> end_line, kind |-> kind, metrics |-> metrics, spaces |-> spaces]

\* a lenient parser: text that is not JSON yields null instead of throwing
JSONparseMutant(x) ==
    IF x.t = "string"
    THEN IF x.isJson THEN [ok |-> TRUE, value |-> x.json]
         ELSE [ok |-> TRUE, value |-> JNull]
    ELSE IF x.t = "object" THEN [ok |-> FALSE]
    ELSE [ok |-> TRUE, value |-> x]

\* JSON.parse(x). A non-string argument is first converted to a string:
\* an object gives "[object Object]", which is not JSON; a number or null
\* gives its own literal.
JSONparse(x) ==
    IF x.t = "string"
    THEN IF x.isJson THEN [ok |-> TRUE, value |-> x.json] ELSE [ok |-> FALSE]
    ELSE IF x.t = "object" THEN [ok |-> FALSE]
    ELSE [ok |-> TRUE, value |-> x]

\* JSON.stringify(v, null, 2)
JSONstringify(v) == JsonText(v)

\* Object.assign({}, contents): own enumerable properties of an object are
\* copied; null and numbers contribute none.
ObjectAssign(contents) == IF contents.t = "object" THEN contents ELSE EmptyObject

\* a test against undefined only: the empty string counts as set
TruthyMutant(s) == s # "<unset>"

\* truthiness of an environment variable
Truthy(s) == s \notin {"<unset>", ""}

-----------------------------------------------------------------------------
(* Rendering (check.ts) *)

RECURSIVE Join(_, _)
Join(parts, sep) ==
    IF Len(parts) = 0 THEN <<>>
    ELSE IF Len(parts) = 1 THEN parts[1]
    ELSE parts[1] \o <<sep>> \o Join(Tail(parts), sep)

\* text is a sequence of pieces; a template literal is the concatenation
\* of its fixed pieces and its interpolated values
getMetrics(metrics) ==
    <<"Nargs: ", ToString(metrics.nargs), "Nexits..Maintainability Index">>

getAnnotationMetrics(metrics) == "Hello"

\* throws a TypeError when contents is null (contents.name) or has no
\* metrics (metrics.nargs)
getFileMetricsThrows(contents) ==
    contents.t = "null" \/ ~Has(contents, "metrics")

getFileMetrics(contents) ==
    <<"<details><summary><b>", Interpolate(contents, "name"), "</b></summary>">>
        \o getMetrics(contents.metrics) \o <<"</details>">>

getText(rcaVersion, metricsList) ==
    <<"## Info | rust-code-analysis-cli | ", rcaVersion, " | ## Results">>
        \o Join(metricsList, "\n")

-----------------------------------------------------------------------------
(* Rendering with nested spaces (the check.ts that has getSpaceMetrics) *)

\* getMetrics of that version: every metric in its own <details> list
getMetricsHtml(metrics) ==
    <<"<details><summary>Nargs</summary><ul><li>Sum: ", ToString(metrics.nargs),
      "</li></ul></details>..<summary>Maintainability Index</summary>..</details>">>

\* the fixed pieces of the markup
FileOpen == "<details><summary><b>"
SpaceOpen == "<li><details><summary><b>"
GlobalOpen == "</b></summary><ul><li><details><summary><b>Global</b></summary>"
MetricsOpen == "</b></summary><ul><li><details><summary><b>Metrics</b></summary>"
SpacesOpen == "<li><details><summary><b>Spaces</b></summary>"
ItemClose == "</details></li>"
SubspacesClose == "</details></li></ul>"

\* the recursion into the subspaces left out
getSpaceMetricsBodyMutant(space) ==
    IF space.t = "null" \/ ~Has(space, "metrics") \/ ~Has(space, "spaces")
    THEN [threw |-> TRUE, text |-> <<>>]
    ELSE [threw |-> FALSE,
          text |-> <<SpaceOpen,
                     IF Has(space, "name") /\ space.name = "<anonymous>"
                     THEN "unnamed space" ELSE Interpolate(space, "name"),
                     MetricsOpen>>
                   \o getMetricsHtml(space.metrics) \o <<ItemClose, ItemClose>>]

\* getSpaceMetrics: the loop over spaces (from index i on, text being
\* spaces_str so far), the body of one iteration, and the whole function.
\* The result is the text and whether a TypeError left the function:
\* getMetrics reads metrics.nargs, and space.spaces.length reads spaces.
RECURSIVE getSpaceMetricsLoop(_, _, _), getSpaceMetricsBody(_), getSpaceMetrics(_)
getSpaceMetricsLoop(spaces, i, text) ==
    IF i > Len(spaces) THEN [threw |-> FALSE, text |-> text]
    ELSE LET r == getSpaceMetricsBody(spaces[i]) IN
         IF r.threw THEN r ELSE getSpaceMetricsLoop(spaces, i + 1, text \o r.text)

getSpaceMetricsBody(space) ==
    LET name == IF Has(space, "name") /\ space.name = "<anonymous>"
                THEN "unnamed space" ELSE Interpolate(space, "name")
        head == <<SpaceOpen, name, MetricsOpen>>
    IN IF space.t = "null" \/ ~Has(space, "metrics") \/ ~Has(space, "spaces")
       THEN [threw |-> TRUE, text |-> <<>>]
       ELSE IF Len(space.spaces) > 0
       THEN LET sub == getSpaceMetrics(space.spaces) IN
            IF sub.threw THEN sub
            ELSE [threw |-> FALSE,
                  text |-> head \o getMetricsHtml(space.metrics) \o <<ItemClose>>
                           \o <<SpacesOpen>> \o sub.text
                           \o <<SubspacesClose, ItemClose>>]
       ELSE [threw |-> FALSE,
             text |-> head \o getMetricsHtml(space.metrics)
                      \o <<ItemClose, ItemClose>>]

getSpaceMetrics(spaces) ==
    LET r == getSpaceMetricsLoop(spaces, 1, <<"<ul>">>) IN
    IF r.threw THEN r ELSE [threw |-> FALSE, text |-> r.text \o <<"</ul>">>]

\* getFileMetrics of that version: the file's own metrics, then the Spaces
\* section when contents.spaces is not empty
getFileMetricsSpaces(contents) ==
    IF contents.t = "null" \/ ~Has(contents, "metrics") \/ ~Has(contents, "spaces")
    THEN [threw |-> TRUE, text |-> <<>>]
    ELSE LET head == <<FileOpen, Interpolate(contents, "name"), GlobalOpen>>
                        \o getMetricsHtml(contents.metrics) \o <<ItemClose>>
         IN IF Len(contents.spaces) > 0
            THEN LET sub == getSpaceMetrics(contents.spaces) IN
                 IF sub.threw THEN sub
                 ELSE [threw |-> FALSE,
                       text |-> head \o <<SpacesOpen>> \o sub.text
                                \o <<ItemClose>> \o <<"</details></ul>">>]
            ELSE [threw |-> FALSE, text |-> head \o <<"</details></ul>">>]

\* the visible separator between two blocks
Separator == "\n\n---\n\n"

\* the last block left out of the report
getTextSpacesMutant(rcaVersion, metricsList) ==
    <<"## Info | rust-code-analysis-cli | ", rcaVersion, " | ## Files Metrics">>
        \o Join(SubSeq(metricsList, 1, Len(metricsList) - 1), Separator)

\* getText of that version
getTextSpaces(rcaVersion, metricsList) ==
    <<"## Info | rust-code-analysis-cli | ", rcaVersion, " | ## Files Metrics">>
        \o Join(metricsList, Separator)

\* parseJson of that version: the parsed value itself is pushed, then the
\* rendered block
parseJsonSpaces(file, fj, fm) ==
    LET parsed == JSONparse(file) IN
    IF ~parsed.ok
    THEN [file_jsons |-> fj, file_metrics |-> fm, result |-> "returned"]
    ELSE LET rendered == getFileMetricsSpaces(parsed.value) IN
         IF rendered.threw
         THEN [file_jsons |-> Append(fj, parsed.value), file_metrics |-> fm,
               result |-> "threw"]
         ELSE [file_jsons |-> Append(fj, parsed.value),
               file_metrics |-> Append(fm, rendered.text),
               result |-> "returned"]

-----------------------------------------------------------------------------
(* Annotation extraction and batching (check.ts) *)

Undefined == [t |-> "undefined"]

Prop(v, k) == IF Has(v, k) THEN v[k] ELSE Undefined

\* the object addAnnotation builds from a space
Annotation(contents) ==
    [path |-> Prop(contents, "name"),
     start_line |-> Prop(contents, "start_line"),
     end_line |-> Prop(contents, "end_line"),
     annotation_level |-> "notice",
     title |-> Prop(contents, "name"),
     message |-> getAnnotationMetrics(Prop(contents, "metrics"))]

\* addAnnotation: this.annotations.push(annotation)
addAnnotation(contents, anns) == Append(anns, Annotation(contents))

\* makeAnnotations: the loop over contents.spaces (from index i on) and the
\* body of one iteration. The result is the annotation list and whether an
\* exception left the loop: JSON.parse(space) throws a SyntaxError,
\* space_obj.spaces.length throws a TypeError when spaces is undefined, and
\* reading a property of null throws.
RECURSIVE makeAnnotationsLoop(_, _, _), makeAnnotationsBody(_, _)
makeAnnotationsLoop(spaces, i, anns) ==
    IF i > Len(spaces) THEN [threw |-> FALSE, anns |-> anns]
    ELSE LET r == makeAnnotationsBody(spaces[i], anns) IN
         IF r.threw THEN r ELSE makeAnnotationsLoop(spaces, i + 1, r.anns)

\* the annotation of a space added after those of its subspaces
makeAnnotationsBodyMutant(space, anns) ==
    LET parsed == JSONparse(space) IN
    IF ~parsed.ok THEN [threw |-> TRUE, anns |-> anns]
    ELSE IF parsed.value.t = "null" THEN [threw |-> TRUE, anns |-> anns]
    ELSE IF ~Has(parsed.value, "spaces")
         THEN [threw |-> TRUE, anns |-> addAnnotation(parsed.value, anns)]
    ELSE IF Len(parsed.value.spaces) > 0
         THEN LET r == makeAnnotationsLoop(parsed.value.spaces, 1, anns) IN
              IF r.threw THEN r
              ELSE [threw |-> FALSE, anns |-> addAnnotation(parsed.value, r.anns)]
    ELSE [threw |-> FALSE, anns |-> addAnnotation(parsed.value, anns)]

makeAnnotationsBody(space, anns) ==
    LET parsed == JSONparse(space) IN
    IF ~parsed.ok THEN [threw |-> TRUE, anns |-> anns]
    ELSE IF parsed.value.t = "null" THEN [threw |-> TRUE, anns |-> anns]
    ELSE IF ~Has(parsed.value, "spaces")
         THEN [threw |-> TRUE, anns |-> addAnnotation(parsed.value, anns)]
    ELSE IF Len(parsed.value.spaces) > 0
         THEN makeAnnotationsLoop(parsed.value.spaces, 1,
                                  addAnnotation(parsed.value, anns))
    ELSE [threw |-> FALSE, anns |-> addAnnotation(parsed.value, anns)]

\* the record itself annotated before its spaces
makeAnnotationsMutant(contents, anns) ==
    makeAnnotationsLoop(contents.spaces, 1, addAnnotation(contents, anns))

makeAnnotations(contents, anns) == makeAnnotationsLoop(contents.spaces, 1, anns)

\* Checks API page size, the literal in getBucket's loop condition
BucketSize == 50

\* the loop bound off by one: a page may take BucketSize + 1 annotations
RECURSIVE getBucketLoopMutant(_, _)
getBucketLoopMutant(page, anns) ==
    IF Len(page) <= BucketSize /\ Len(anns) > 0
    THEN getBucketLoopMutant(Append(page, anns[Len(anns)]),
                             SubSeq(anns, 1, Len(anns) - 1))
    ELSE [page |-> page, rest |-> anns]

\* getBucket's loop: pop from the end of this.annotations into the page
\* until the page holds BucketSize annotations or the list is empty
RECURSIVE getBucketLoop(_, _)
getBucketLoop(page, anns) ==
    IF Len(page) < BucketSize /\ Len(anns) > 0
    THEN getBucketLoop(Append(page, anns[Len(anns)]), SubSeq(anns, 1, Len(anns) - 1))
    ELSE [page |-> page, rest |-> anns]

\* one annotation too many removed from the list once the page is full
getBucketMutant(anns) ==
    LET b == getBucketLoop(<<>>, anns) IN
    [page |-> b.page,
     rest |-> IF Len(b.rest) > 0 THEN SubSeq(b.rest, 1, Len(b.rest) - 1) ELSE b.rest]

\* the page copied from the list, which is left as it was
getBucketKeeps(anns) == [page |-> getBucketLoop(<<>>, anns).page, rest |-> anns]

getBucket(anns) == getBucketLoop(<<>>, anns)

-----------------------------------------------------------------------------
(* parseJson *)

\* The effect of parseJson(file) on the three arrays, and how the call ends
parseJson(file, fj, fm, anns) ==
    LET parsed == JSONparse(file) IN
    IF ~parsed.ok
    THEN [file_jsons |-> fj, file_metrics |-> fm, annotations |-> anns,
          result |-> "returned"]
    ELSE LET contents == parsed.value
             fj1 == Append(fj, ObjectAssign(contents))
         IN IF getFileMetricsThrows(contents)
            THEN [file_jsons |-> fj1, file_metrics |-> fm, annotations |-> anns,
                  result |-> "threw"]
            ELSE LET fm1 == Append(fm, getFileMetrics(contents)) IN
                 IF ~Has(contents, "spaces")
                 THEN [file_jsons |-> fj1, file_metrics |-> fm1, annotations |-> anns,
                       result |-> "threw"]
                 ELSE IF Len(contents.spaces) > 0
                      THEN LET made == makeAnnotations(contents, anns) IN
                           [file_jsons |-> fj1, file_metrics |-> fm1,
                            annotations |-> made.anns,
                            result |-> IF made.threw THEN "threw" ELSE "returned"]
                      ELSE [file_jsons |-> fj1, file_metrics |-> fm1,
                            annotations |-> anns, result |-> "returned"]

-----------------------------------------------------------------------------
(* The lines the analysis tool may print *)

Leaf(name, start_line, end_line) ==
    RcaFile(name, start_line, end_line, "function", Metrics(1), <<>>)

\* a file with k functions, each space given as a JSON string
Widths == {0, 1, 50, 70}

Flat(k) ==
    RcaFile("a.rs", 1, 2 * k + 2, "unit", Metrics(0),
            [i \in 1..k |-> JsonText(Leaf("f", 2 * i, 2 * i + 1))])

\* a file with nested spaces, each space given as a JSON string
Nested ==
    RcaFile("b.rs", 1, 13, "unit", Metrics(2),
            <<JsonText(RcaFile("outer", 2, 9, "function", Metrics(3),
                               <<JsonText(Leaf("<anonymous>", 3, 4)),
                                 JsonText(Leaf("inner", 5, 8))>>)),
              JsonText(Leaf("tail", 10, 12))>>)

\* a file as rust-code-analysis-cli prints it: spaces are nested objects
NestedObjects ==
    RcaFile("c.rs", 1, 9, "unit", Metrics(1),
            <<RcaFile("main", 2, 8, "function", Metrics(1),
                      <<Leaf("<anonymous>", 3, 4)>>)>>)

\* a file whose first space is a JSON string and whose second is an object
Mixed ==
    RcaFile("d.rs", 1, 9, "unit", Metrics(1),
            <<JsonText(Leaf("g", 2, 3)), Leaf("h", 4, 5)>>)

\* a file with nested spaces as rust-code-analysis-cli prints them
NestedTree ==
    RcaFile("e.rs", 1, 13, "unit", Metrics(2),
            <<RcaFile("outer", 2, 9, "function", Metrics(3),
                      <<Leaf("<anonymous>", 3, 4), Leaf("inner", 5, 8)>>),
              Leaf("tail", 10, 12)>>)

\* a record without spaces whose own name is the anonymous sentinel
AnonymousFile == RcaFile("<anonymous>", 1, 3, "unit", Metrics(0), <<>>)

NotJsonLines ==
    {PlainText("warning: skipped"), PlainText("{\"name\": \"a.rs\"")}

JsonLines ==
    {JsonText(JNull), JsonText(JNumber(7)),
     JsonText([t |-> "object", name |-> "a.rs"]),
     JsonText([t |-> "object", name |-> "a.rs", metrics |-> Metrics(0)]),
     JsonText(Nested), JsonText(NestedObjects), JsonText(Mixed),
     JsonText(NestedTree), JsonText(AnonymousFile)}
        \cup {JsonText(Flat(k)) : k \in Widths}

Lines == NotJsonLines \cup JsonLines

HeadRefs == {"<unset>", "", "patch-1"}

RcaVersions == {"0.0.18"}

CheckRunIds == {1001, 1002}

-----------------------------------------------------------------------------
(* Requests to the Checks API (check.ts) *)

NoError == [name |-> "none", call |-> 0]

\* the rejection of the n-th request handed to the client
HttpError(n) == [name |-> "HttpError", call |-> n]

CheckOptions(rca_version) ==
    [name |-> "rust-code-analysis-cli", owner |-> "Luni-4",
     repo |-> "rust-code-analysis-check", head_sha |-> "c0ffee",
     rca_version |-> rca_version]

\* the options run hands to executeCheck, one per version the tool reports
Options == {CheckOptions(v) : v \in RcaVersions}

\* createCheck's argument to client.checks.create
createCheck(opts) ==
    [api |-> "create", owner |-> opts.owner, repo |-> opts.repo,
     name |-> opts.name, head_sha |-> opts.head_sha, status |-> "in_progress"]

\* the single update sent without a terminal status
globalMetricsCheckMutant(id, opts, fm) ==
    [api |-> "update", owner |-> opts.owner, repo |-> opts.repo,
     name |-> opts.name, check_run_id |-> id,
     status |-> "in_progress",
     output |-> [title |-> opts.name, summary |-> "",
                 text |-> getText(opts.rca_version, fm)]]

\* the single update sent as a cancellation
globalMetricsCheckCancelled(id, opts, fm) ==
    [api |-> "update", owner |-> opts.owner, repo |-> opts.repo,
     name |-> opts.name, check_run_id |-> id,
     status |-> "completed", conclusion |-> "cancelled", completed_at |-> "now",
     output |-> [title |-> opts.name, summary |-> "",
                 text |-> getText(opts.rca_version, fm)]]

\* globalMetricsCheck's req
globalMetricsCheck(id, opts, fm) ==
    [api |-> "update", owner |-> opts.owner, repo |-> opts.repo,
     name |-> opts.name, check_run_id |-> id,
     status |-> "completed", conclusion |-> "success", completed_at |-> "now",
     output |-> [title |-> opts.name, summary |-> "",
                 text |-> getText(opts.rca_version, fm)]]

\* metricsCheck's req: the only update of the version that renders nested
\* spaces
metricsCheck(id, opts, fm) ==
    [api |-> "update", owner |-> opts.owner, repo |-> opts.repo,
     name |-> opts.name, check_run_id |-> id,
     status |-> "completed", conclusion |-> "success", completed_at |-> "now",
     output |-> [title |-> opts.name, summary |-> "",
                 text |-> getTextSpaces(opts.rca_version, fm)]]

\* the test made on a list that is never empty inside the loop
batchIsLastMutant(rest) == FALSE

\* the test inverted
batchIsLastInverted(rest) == Len(rest) > 0

\* the status allMetricsCheck gives a request, from what is left in
\* this.annotations after the page was taken
batchIsLast(rest) == ~(Len(rest) > 0)

\* the report sent with the last page only
allMetricsCheckMutant(id, opts, fm, page, rest) ==
    LET output == [title |-> opts.name, summary |-> "",
                   text |-> IF batchIsLast(rest)
                            THEN getText(opts.rca_version, fm)
                            ELSE getText(opts.rca_version, <<>>),
                   annotations |-> page]
    IN IF batchIsLast(rest)
       THEN [api |-> "update", owner |-> opts.owner, repo |-> opts.repo,
             name |-> opts.name, check_run_id |-> id, output |-> output,
             status |-> "completed", conclusion |-> "success",
             completed_at |-> "now"]
       ELSE [api |-> "update", owner |-> opts.owner, repo |-> opts.repo,
             name |-> opts.name, check_run_id |-> id, output |-> output,
             status |-> "in_progress"]

\* allMetricsCheck's req for one page
allMetricsCheck(id, opts, fm, page, rest) ==
    LET output == [title |-> opts.name, summary |-> "",
                   text |-> getText(opts.rca_version, fm),
                   annotations |-> page]
    IN IF batchIsLast(rest)
       THEN [api |-> "update", owner |-> opts.owner, repo |-> opts.repo,
             name |-> opts.name, check_run_id |-> id, output |-> output,
             status |-> "completed", conclusion |-> "success",
             completed_at |-> "now"]
       ELSE [api |-> "update", owner |-> opts.owner, repo |-> opts.repo,
             name |-> opts.name, check_run_id |-> id, output |-> output,
             status |-> "in_progress"]

\* the cancellation sent with the summary of the other requests
cancelCheckMutant(id, opts) ==
    [api |-> "update", owner |-> opts.owner, repo |-> opts.repo,
     name |-> opts.name, check_run_id |-> id,
     status |-> "completed", conclusion |-> "cancelled", completed_at |-> "now",
     output |-> [title |-> opts.name, summary |-> "",
                 text |-> <<"Check was cancelled due to unhandled error. Check the Action logs for details.">>]]

\* the cancellation sent for a check run other than the created one
cancelCheckOtherRun(id, opts) ==
    [api |-> "update", owner |-> opts.owner, repo |-> opts.repo,
     name |-> opts.name, check_run_id |-> 0,
     status |-> "completed", conclusion |-> "cancelled", completed_at |-> "now",
     output |-> [title |-> opts.name, summary |-> "Unhandled error",
                 text |-> <<"Check was cancelled due to unhandled error. Check the Action logs for details.">>]]

\* cancelCheck's req
cancelCheck(id, opts) ==
    [api |-> "update", owner |-> opts.owner, repo |-> opts.repo,
     name |-> opts.name, check_run_id |-> id,
     status |-> "completed", conclusion |-> "cancelled", completed_at |-> "now",
     output |-> [title |-> opts.name, summary |-> "Unhandled error",
                 text |-> <<"Check was cancelled due to unhandled error. Check the Action logs for details.">>]]

\* the dump loop started one element late
dumpToStdoutMutant(fj) ==
    [i \in 1..(Len(fj) - 1) |-> [cmd |-> "info", msg |-> JSONstringify(fj[i + 1])]]

\* the failure of the cancellation swallowed
cancelThenThrowMutant(error, reply, cancelError) == error

\* the second catch clause of executeCheck once the cancellation request was
\* answered: `await this.cancelCheck(...)` rejects with the cancellation's
\* error, otherwise `throw error` follows
cancelThenThrow(error, reply, cancelError) ==
    IF reply = "rejected" THEN cancelError ELSE error

\* dumpToStdout: one core.info per element of file_jsons
dumpToStdout(fj) == [i \in 1..Len(fj) |-> [cmd |-> "info", msg |-> JSONstringify(fj[i])]]

\* what the fork branch of executeCheck writes before the dump
ForkNotices ==
    <<[cmd |-> "error", msg |-> PlainText("Unable to create the prospective summary!")],
      [cmd |-> "warning", msg |-> PlainText("It seems that this Action is executed from the forked repository.")],
      [cmd |-> "warning", msg |-> PlainText("GitHub Actions are not allowed to create Check annotations")],
      [cmd |-> "info", msg |-> PlainText("Posting the prospective summary here instead.")]>>

-----------------------------------------------------------------------------
(* run and main (main.ts) *)

ExitCodes == {0, 1, 101}

\* new Error(`rust-code-analysis-check had exited with the ${RcaExitCode} exit code`)
ExitCodeError(code) ==
    [name |-> "Error",
     message |-> <<"rust-code-analysis-check had exited with the ",
                   ToString(code), " exit code">>]

\* error.message
Message(error) ==
    IF error.name = "HttpError" THEN <<"HttpError: request ", ToString(error.call)>>
    ELSE error.message

\* the exit code is never looked at
runMutant(checkOutcome, checkError, code) ==
    IF checkOutcome = "threw" THEN checkError ELSE [name |-> "none", call |-> 0]

\* run from the end of executeCheck on: the error run rejects with, NoError
\* if it resolves. A rejection of executeCheck leaves run at the await.
run(checkOutcome, checkError, code) ==
    IF checkOutcome = "threw" THEN checkError
    ELSE IF code # 0 THEN ExitCodeError(code)
    ELSE [name |-> "none", call |-> 0]

\* the errors of @actions/core, @actions/io and @actions/exec that main can
\* catch before executeCheck is called
InputErrors ==
    {[name |-> "Error", message |-> <<"Input required and not supplied: ", input>>] :
        input \in {"token", "directory"}}

WhichErrors ==
    {[name |-> "Error",
      message |-> <<"Unable to locate executable file: ", "rust-code-analysis-cli">>]}

SpawnErrors ==
    {[name |-> "Error",
      message |-> <<"There was an error when attempting to execute the process">>]}

\* without ignoreReturnCode a non-zero exit code rejects the call as well
VersionErrors ==
    SpawnErrors \cup
    {[name |-> "Error",
      message |-> <<"The process '", "rust-code-analysis-cli",
                    "' failed with exit code ", "1">>]}

\* what RcaCli.get writes before it rethrows the error of io.which
NotInstalled ==
    [cmd |-> "error",
     msg |-> PlainText("rust-code-analysis-cli is not installed, see how to do that in                  (link to the example)")]

\* main's catch clause: core.setFailed(error.message)
main(runError) == IF runError.name = "none" THEN <<>> ELSE Message(runError)

-----------------------------------------------------------------------------
(* The run *)

Init ==
    /\ file_jsons = <<>>
    /\ file_metrics = <<>>
    /\ annotations = <<>>
    /\ env \in HeadRefs
    /\ pc = "stream"
    /\ options = CheckOptions("")
    /\ checkRunId = 0
    /\ bucket = <<>>
    /\ branch = "none"
    /\ caught = NoError
    /\ calls = <<>>
    /\ replies = <<>>
    /\ stdout = <<>>
    /\ outcome = "pending"
    /\ thrown = NoError
    /\ RcaExitCode = 0
    /\ failed = <<>>
    /\ stage = "input"
    /\ log = <<>>
    /\ extracted = <<>>

execVars == <<env, pc, options, checkRunId, bucket, branch, caught, calls,
              replies, stdout, outcome, thrown, RcaExitCode, failed, stage>>

\* the stdline listener of main.ts: runner.parseJson(file)
ParseJson(file) ==
    /\ pc = "stream"
    /\ stage = "metrics"
    /\ Len(log) < MaxLines
    /\ LET r == parseJson(file, file_jsons, file_metrics, annotations) IN
         /\ file_jsons' = r.file_jsons
         /\ file_metrics' = r.file_metrics
         /\ annotations' = r.annotations
         /\ log' = Append(log, [line |-> file, result |-> r.result])
         /\ extracted' = extracted \o
                SubSeq(r.annotations, Len(annotations) + 1, Len(r.annotations))
    /\ UNCHANGED execVars

\* main: input.get() returns and run is called
InputGet ==
    /\ stage = "input"
    /\ stage' = "which"
    /\ UNCHANGED <<runnerVars, env, pc, options, checkRunId, bucket, branch,
                   caught, calls, replies, stdout, outcome, thrown, RcaExitCode,
                   failed, log, extracted>>

\* main: core.getInput throws for a required input that is not supplied
InputThrows(error) ==
    /\ stage = "input"
    /\ stage' = "failed"
    /\ failed' = main(error)
    /\ UNCHANGED <<runnerVars, env, pc, options, checkRunId, bucket, branch,
                   caught, calls, replies, stdout, outcome, thrown, RcaExitCode,
                   log, extracted>>

\* RcaCli.get: io.which resolves with the path of the tool
WhichResolves ==
    /\ stage = "which"
    /\ stage' = "version"
    /\ UNCHANGED <<runnerVars, env, pc, options, checkRunId, bucket, branch,
                   caught, calls, replies, stdout, outcome, thrown, RcaExitCode,
                   failed, log, extracted>>

\* RcaCli.get: io.which rejects; core.error, then the error is rethrown
WhichRejects(error) ==
    /\ stage = "which"
    /\ stage' = "failed"
    /\ stdout' = Append(stdout, NotInstalled)
    /\ failed' = main(error)
    /\ UNCHANGED <<runnerVars, env, pc, options, checkRunId, bucket, branch,
                   caught, calls, replies, outcome, thrown, RcaExitCode,
                   log, extracted>>

\* run: program.call(['-V']) resolves; its output is the version that
\* executeCheck is given in its options
VersionResolves ==
    /\ stage = "version"
    /\ stage' = "metrics"
    /\ UNCHANGED <<runnerVars, env, pc, options, checkRunId, bucket, branch,
                   caught, calls, replies, stdout, outcome, thrown, RcaExitCode,
                   failed, log, extracted>>

\* run: program.call(['-V']) rejects
VersionRejects(error) ==
    /\ stage = "version"
    /\ stage' = "failed"
    /\ failed' = main(error)
    /\ UNCHANGED <<runnerVars, env, pc, options, checkRunId, bucket, branch,
                   caught, calls, replies, stdout, outcome, thrown, RcaExitCode,
                   log, extracted>>

\* run: program.call(args) rejects, whatever was parsed so far; the finally
\* clause closes the group and executeCheck is not called
MetricsRejects(error) ==
    /\ stage = "metrics"
    /\ pc = "stream"
    /\ stage' = "failed"
    /\ failed' = main(error)
    /\ UNCHANGED <<runnerVars, env, pc, options, checkRunId, bucket, branch,
                   caught, calls, replies, stdout, outcome, thrown, RcaExitCode,
                   log, extracted>>

\* the steps of main and run before executeCheck is called
BeforeCheck ==
    \/ InputGet
    \/ \E error \in InputErrors : InputThrows(error)
    \/ WhichResolves
    \/ \E error \in WhichErrors : WhichRejects(error)
    \/ VersionResolves
    \/ \E error \in VersionErrors : VersionRejects(error)
    \/ \E error \in SpawnErrors : MetricsRejects(error)

\* program.call(args) resolves with the exit code, then executeCheck up to
\* its first await: createCheck sends the create request
ExecuteCheck(opts, code) ==
    /\ pc = "stream"
    /\ stage = "metrics"
    /\ stage' = "check"
    /\ RcaExitCode' = code
    /\ options' = opts
    /\ calls' = Append(calls, createCheck(opts))
    /\ pc' = "awaitCreate"
    /\ UNCHANGED <<runnerVars, env, checkRunId, bucket, branch, caught, replies,
                   stdout, outcome, thrown, failed, log, extracted>>

\* run and main once executeCheck has ended: nothing is awaited between the
\* end of executeCheck and core.setFailed
RunContinues ==
    /\ UNCHANGED <<RcaExitCode, stage>>
    /\ failed' = IF pc' = "done" THEN main(run(outcome', thrown', RcaExitCode))
                 ELSE failed

\* allMetricsCheck from a getBucket call to the next await or to its return
NextBucket ==
    LET b == getBucket(annotations) IN
    /\ annotations' = b.rest
    /\ bucket' = b.page
    /\ IF Len(b.page) > 0
       THEN /\ calls' = Append(calls, allMetricsCheck(checkRunId', options,
                                                      file_metrics, b.page, b.rest))
            /\ pc' = "awaitUpdate"
            /\ UNCHANGED outcome
       ELSE /\ pc' = "done"
            /\ outcome' = "returned"
            /\ UNCHANGED calls

\* the records dumped although the check run was created
CreateResolvesMutant(id) ==
    /\ pc = "awaitCreate"
    /\ replies' = Append(replies, "resolved")
    /\ checkRunId' = id
    /\ stdout' = IF Truthy(env) THEN stdout \o ForkNotices \o dumpToStdout(file_jsons)
                 ELSE stdout
    /\ IF Len(annotations) = 0
       THEN /\ branch' = "global"
            /\ calls' = Append(calls, globalMetricsCheck(id, options, file_metrics))
            /\ pc' = "awaitUpdate"
            /\ UNCHANGED <<annotations, bucket, outcome>>
       ELSE /\ branch' = "all"
            /\ NextBucket
    /\ UNCHANGED <<file_jsons, file_metrics, env, options, caught,
                   thrown, log, extracted>>
    /\ RunContinues

\* the create request resolves with response.data.id
CreateResolves(id) ==
    /\ pc = "awaitCreate"
    /\ replies' = Append(replies, "resolved")
    /\ checkRunId' = id
    /\ IF Len(annotations) = 0
       THEN /\ branch' = "global"
            /\ calls' = Append(calls, globalMetricsCheck(id, options, file_metrics))
            /\ pc' = "awaitUpdate"
            /\ UNCHANGED <<annotations, bucket, outcome>>
       ELSE /\ branch' = "all"
            /\ NextBucket
    /\ UNCHANGED <<file_jsons, file_metrics, env, options, caught, stdout,
                   thrown, log, extracted>>
    /\ RunContinues

\* the create request rejects: the first catch clause of executeCheck
CreateRejects ==
    /\ pc = "awaitCreate"
    /\ replies' = Append(replies, "rejected")
    /\ pc' = "done"
    /\ IF Truthy(env)
       THEN /\ stdout' = stdout \o ForkNotices \o dumpToStdout(file_jsons)
            /\ outcome' = "returned"
            /\ UNCHANGED thrown
       ELSE /\ outcome' = "threw"
            /\ thrown' = HttpError(Len(calls))
            /\ UNCHANGED stdout
    /\ UNCHANGED <<runnerVars, env, options, checkRunId, bucket, branch, caught,
                   calls, log, extracted>>
    /\ RunContinues

\* an update request of globalMetricsCheck or allMetricsCheck resolves
UpdateResolves ==
    /\ pc = "awaitUpdate"
    /\ replies' = Append(replies, "resolved")
    /\ checkRunId' = checkRunId
    /\ IF branch = "global"
       THEN /\ pc' = "done"
            /\ outcome' = "returned"
            /\ UNCHANGED <<annotations, bucket, calls>>
       ELSE NextBucket
    /\ UNCHANGED <<file_jsons, file_metrics, env, options, branch, caught,
                   stdout, thrown, log, extracted>>
    /\ RunContinues

\* an update request rejects: the second catch clause sends the cancellation
UpdateRejects ==
    /\ pc = "awaitUpdate"
    /\ replies' = Append(replies, "rejected")
    /\ caught' = HttpError(Len(calls))
    /\ calls' = Append(calls, cancelCheck(checkRunId, options))
    /\ pc' = "awaitCancel"
    /\ UNCHANGED <<runnerVars, env, options, checkRunId, bucket, branch, stdout,
                   outcome, thrown, log, extracted>>
    /\ RunContinues

\* the cancellation resolves: throw error
CancelResolves ==
    /\ pc = "awaitCancel"
    /\ replies' = Append(replies, "resolved")
    /\ pc' = "done"
    /\ outcome' = "threw"
    /\ thrown' = cancelThenThrow(caught, "resolved", HttpError(Len(calls)))
    /\ UNCHANGED <<runnerVars, env, options, checkRunId, bucket, branch, caught,
                   calls, stdout, log, extracted>>
    /\ RunContinues

\* the cancellation rejects inside the catch clause
CancelRejects ==
    /\ pc = "awaitCancel"
    /\ replies' = Append(replies, "rejected")
    /\ pc' = "done"
    /\ outcome' = "threw"
    /\ thrown' = cancelThenThrow(caught, "rejected", HttpError(Len(calls)))
    /\ UNCHANGED <<runnerVars, env, options, checkRunId, bucket, branch, caught,
                   calls, stdout, log, extracted>>
    /\ RunContinues

Next ==
    \/ BeforeCheck
    \/ \E file \in Lines : ParseJson(file)
    \/ \E opts \in Options, code \in ExitCodes : ExecuteCheck(opts, code)
    \/ \E id \in CheckRunIds : CreateResolves(id)
    \/ CreateRejects
    \/ UpdateResolves
    \/ UpdateRejects
    \/ CancelResolves
    \/ CancelRejects

Spec == Init /\ [][Next]_vars

\* the stdline listener with the parseJson that renders nested spaces
ParseJsonSpaces(file) ==
    /\ pc = "stream"
    /\ stage = "metrics"
    /\ Len(log) < MaxLines
    /\ LET r == parseJsonSpaces(file, file_jsons, file_metrics) IN
         /\ file_jsons' = r.file_jsons
         /\ file_metrics' = r.file_metrics
         /\ log' = Append(log, [line |-> file, result |-> r.result])
    /\ UNCHANGED <<annotations, extracted, execVars>>

\* the create request resolves: executeCheck of that version awaits
\* metricsCheck whatever was parsed
CreateResolvesSpaces(id) ==
    /\ pc = "awaitCreate"
    /\ replies' = Append(replies, "resolved")
    /\ checkRunId' = id
    /\ branch' = "global"
    /\ calls' = Append(calls, metricsCheck(id, options, file_metrics))
    /\ pc' = "awaitUpdate"
    /\ UNCHANGED <<runnerVars, bucket, outcome, env, options, caught, stdout,
                   thrown, log, extracted>>
    /\ RunContinues

NextSpaces ==
    \/ BeforeCheck
    \/ \E file \in Lines : ParseJsonSpaces(file)
    \/ \E opts \in Options, code \in ExitCodes : ExecuteCheck(opts, code)
    \/ \E id \in CheckRunIds : CreateResolvesSpaces(id)
    \/ CreateRejects
    \/ UpdateResolves
    \/ UpdateRejects
    \/ CancelResolves
    \/ CancelRejects

\* the record stream handed to the CheckRunner that renders nested spaces
SpacesSpec == Init /\ [][NextSpaces]_vars

\* the answers of the Checks API
Replies ==
    \/ \E id \in CheckRunIds : CreateResolves(id)
    \/ CreateRejects
    \/ UpdateResolves
    \/ UpdateRejects
    \/ CancelResolves
    \/ CancelRejects

\* a pending request is answered: the steps of Answered in a behaviour of
\* Spec are the steps of Replies
Answered ==
    /\ pc \in {"awaitCreate", "awaitUpdate", "awaitCancel"}
    /\ replies' \in {Append(replies, "resolved"), Append(replies, "rejected")}

\* lines that give a cycle no, one, two or three pages of annotations, a
\* record that is not rendered and a line that is ignored
CycleLines ==
    {PlainText("warning: skipped"), JsonText(JNull), JsonText(Nested),
     JsonText(Flat(0)), JsonText(Flat(50)), JsonText(Flat(70))}

FairNext ==
    \/ BeforeCheck
    \/ \E file \in CycleLines : ParseJson(file)
    \/ \E opts \in Options, code \in ExitCodes : ExecuteCheck(opts, code)
    \/ Replies

\* a run in which every request is eventually answered
FairSpec == Init /\ [][FairNext]_vars /\ WF_replies(Answered)

-----------------------------------------------------------------------------
(* Vocabulary of the properties *)

\* the update requests of the cycle, in the order they were sent
Updates == SelectSeq(calls, LAMBDA c : c.api = "update")

\* the annotation pages of the cycle, in the order they were sent
Pages ==
    LET withPage == SelectSeq(Updates, LAMBDA c : "annotations" \in DOMAIN c.output)
    IN [i \in 1..Len(withPage) |-> withPage[i].output.annotations]

RECURSIVE Concat(_)
Concat(seqs) == IF Len(seqs) = 0 THEN <<>> ELSE seqs[1] \o Concat(Tail(seqs))

Range(seq) == {seq[i] : i \in 1..Len(seq)}

Count(seq, x) == Cardinality({i \in 1..Len(seq) : seq[i] = x})

IsPermutation(a, b) ==
    /\ Len(a) = Len(b)
    /\ \A x \in Range(a) \cup Range(b) : Count(a, x) = Count(b, x)

\* ceil(n / BucketSize)
PagesFor(n) == (n + BucketSize - 1) \div BucketSize

\* executeCheck has ended
CycleEnded == pc = "done" /\ Len(replies) >= 1

\* the create request and every update request succeeded
AllResolved == \A i \in 1..Len(replies) : replies[i] = "resolved"

CreateFailed == CycleEnded /\ replies[1] = "rejected"

IsCancellation(req) ==
    /\ req.api = "update"
    /\ "conclusion" \in DOMAIN req
    /\ req.conclusion = "cancelled"

\* the i-th request is an update of the Completed path and it was rejected
FailedUpdate(i) ==
    /\ i \in 2..Len(replies)
    /\ replies[i] = "rejected"
    /\ ~IsCancellation(calls[i])

\* the request after the i-th is the cancellation and it is the last one
CancelledAfter(i) ==
    /\ Len(calls) = i + 1
    /\ IsCancellation(calls[i + 1])
    /\ calls[i + 1].status = "completed"
    /\ calls[i + 1].output.summary = "Unhandled error"
    /\ "annotations" \notin DOMAIN calls[i + 1].output
    /\ calls[i + 1].check_run_id = checkRunId
    /\ \A j \in 1..i : ~IsCancellation(calls[j])

\* the last parseJson call and the line it was given
LastLine == log[Len(log)].line

ParseJsonStep == Len(log') = Len(log) + 1

NewAnnotations == SubSeq(annotations', Len(annotations) + 1, Len(annotations'))

\* the node a spaces entry denotes, whichever way it is written
NodeOf(space) == IF space.t = "string" THEN space.json ELSE space

\* the line bounds of every node below a record, in document order
RECURSIVE NodeLines(_, _)
NodeLines(spaces, i) ==
    IF i > Len(spaces) THEN <<>>
    ELSE <<<<NodeOf(spaces[i]).start_line, NodeOf(spaces[i]).end_line>>>>
            \o NodeLines(NodeOf(spaces[i]).spaces, 1)
            \o NodeLines(spaces, i + 1)

AnnotationLines(anns) == [i \in 1..Len(anns) |-> <<anns[i].start_line, anns[i].end_line>>]

\* a line that holds a record of the RcaFile shape
IsRecordLine(line) ==
    line.isJson /\ Has(line.json, "metrics") /\ Has(line.json, "spaces")

-----------------------------------------------------------------------------
(* Properties *)

\* C1: with L >= 1 pending annotations and every request succeeding, the
\* cycle sends exactly ceil(L/50) updates; all but the last carry
\* status=in_progress, the last carries status=completed and
\* conclusion=success, and no update has an empty page.
C1_BatchedUpdates ==
    (CycleEnded /\ AllResolved /\ Len(extracted) >= 1) =>
        LET u == Updates IN
        /\ Len(u) = PagesFor(Len(extracted))
        /\ \A i \in 1..(Len(u) - 1) :
              u[i].status = "in_progress" /\ "conclusion" \notin DOMAIN u[i]
        /\ u[Len(u)].status = "completed"
        /\ u[Len(u)].conclusion = "success"
        /\ \A i \in 1..Len(u) : Len(u[i].output.annotations) > 0

C1_Witness ==
    /\ CycleEnded /\ AllResolved
    /\ Len(extracted) = 120
    /\ Len(Updates) = 3

\* C2, as claimed: after a rejected update of the Completed path the cycle
\* sends exactly one more request, the cancellation, and rejects with the
\* error of the rejected update.
C2_OriginalErrorAlwaysRaised ==
    CycleEnded =>
        \A i \in 2..Len(replies) : FailedUpdate(i) =>
            /\ CancelledAfter(i)
            /\ outcome = "threw"
            /\ thrown = HttpError(i)

\* C2, amended: after a rejected update of the Completed path the cycle
\* sends exactly one more request, the cancellation (completed, cancelled,
\* summary 'Unhandled error', no annotations); it then rejects with the error
\* of the rejected update when the cancellation succeeded and with the
\* cancellation's own error when the cancellation was rejected.
C2_CancelThenRaise ==
    CycleEnded =>
        \A i \in 2..Len(replies) : FailedUpdate(i) =>
            /\ CancelledAfter(i)
            /\ outcome = "threw"
            /\ thrown = IF replies[i + 1] = "resolved"
                        THEN HttpError(i) ELSE HttpError(i + 1)

C2_Witness ==
    /\ CycleEnded
    /\ FailedUpdate(3)
    /\ replies[4] = "resolved"
    /\ thrown = HttpError(3)

\* C3: when the create request is rejected and GITHUB_HEAD_REF is unset or
\* empty, the cycle rejects with the create error itself, no update is sent
\* and nothing is written to standard output.
C3_CreateErrorPropagates ==
    (CreateFailed /\ env \in {"<unset>", ""}) =>
        /\ outcome = "threw"
        /\ thrown = HttpError(1)
        /\ Len(calls) = 1
        /\ Updates = <<>>
        /\ stdout = <<>>

C3_Witness ==
    /\ CreateFailed
    /\ env = ""
    /\ Len(file_jsons) > 0
    /\ outcome = "threw"

\* C4: when the create request is rejected and GITHUB_HEAD_REF is set, no
\* request follows the create, the cycle returns normally, and the dump is
\* one entry per element of file_jsons, in order, each the JSON text of
\* that element; file_jsons holds one element per line that was JSON.
C4_ForkFallback ==
    (CreateFailed /\ env = "patch-1") =>
        LET dump == SelectSeq(stdout, LAMBDA e : e.msg.isJson)
            jsonLines == SelectSeq(log, LAMBDA e : e.line.isJson)
        IN /\ Len(calls) = 1
           /\ outcome = "returned"
           /\ thrown = NoError
           /\ Len(dump) = Len(file_jsons)
           /\ \A i \in 1..Len(dump) :
                 dump[i].cmd = "info" /\ dump[i].msg.json = file_jsons[i]
           /\ Len(dump) = Len(jsonLines)
           /\ \A i \in 1..Len(dump) :
                 jsonLines[i].line.json.t = "object" =>
                     dump[i].msg.json = jsonLines[i].line.json

C4_Witness ==
    /\ CreateFailed
    /\ env = "patch-1"
    /\ outcome = "returned"
    /\ Len(file_jsons) = 2
    /\ file_jsons[1] # file_jsons[2]
    /\ Len(stdout) = Len(ForkNotices) + 2

\* C5: with no pending annotation and every request succeeding, the cycle
\* sends exactly one update, with status=completed, conclusion=success and
\* the rendered report as its text.
C5_SingleUpdate ==
    (CycleEnded /\ AllResolved /\ Len(extracted) = 0) =>
        /\ Len(Updates) = 1
        /\ Updates[1].status = "completed"
        /\ Updates[1].conclusion = "success"
        /\ Updates[1].output.text = getText(options.rca_version, file_metrics)
        /\ "annotations" \notin DOMAIN Updates[1].output

C5_Witness ==
    /\ CycleEnded /\ AllResolved
    /\ Len(extracted) = 0
    /\ Len(file_metrics) = 2
    /\ Len(Updates) = 1

\* C6, as claimed: the pages sent by a cycle whose requests all succeed,
\* concatenated in the order they were sent, are the annotations in the
\* order they were extracted.
C6_OrderPreserved ==
    (CycleEnded /\ AllResolved) => Concat(Pages) = extracted

\* C7: for L extracted annotations, a cycle whose requests all succeed takes
\* exactly ceil(L/50) pages from getBucket, each of 1 to 50 annotations, and
\* the pages together hold every annotation exactly as often as it was
\* extracted.
C7_PagesPartition ==
    (CycleEnded /\ AllResolved) =>
        /\ Len(Pages) = PagesFor(Len(extracted))
        /\ \A i \in 1..Len(Pages) : Len(Pages[i]) \in 1..BucketSize
        /\ IsPermutation(Concat(Pages), extracted)
        /\ annotations = <<>>

C7_Witness ==
    /\ CycleEnded /\ AllResolved
    /\ Len(extracted) = 100
    /\ Len(Pages) = 2
    /\ Len(Pages[2]) = BucketSize

\* C8: a parseJson call on a line that is not JSON returns without an error
\* and leaves file_jsons, file_metrics and annotations as they were.
C8_NotJsonIgnored ==
    [][(ParseJsonStep /\ ~log'[Len(log')].line.isJson) =>
          /\ log'[Len(log')].result = "returned"
          /\ UNCHANGED runnerVars]_vars

C8_Witness ==
    /\ Len(log) = 2
    /\ ~LastLine.isJson
    /\ log[1].line.isJson
    /\ Len(file_jsons) = 1
    /\ Len(file_metrics) = 1

\* C9, as claimed: a parseJson call either adds the record to file_jsons and
\* to file_metrics and returns, or changes none of the arrays.
C9_AllOrNothing ==
    [][ParseJsonStep =>
          \/ UNCHANGED runnerVars
          \/ /\ Len(file_jsons') = Len(file_jsons) + 1
             /\ Len(file_metrics') = Len(file_metrics) + 1
             /\ log'[Len(log')].result = "returned"]_vars

\* C10, as claimed: a parseJson call on a record whose tree has T nodes
\* below the root adds exactly T annotations, one per node, each with the
\* start_line and end_line of its node.
C10_OnePerNode ==
    [][(ParseJsonStep /\ IsRecordLine(log'[Len(log')].line)) =>
          LET nodes == NodeLines(log'[Len(log')].line.json.spaces, 1) IN
          /\ Len(NewAnnotations) = Len(nodes)
          /\ IsPermutation(AnnotationLines(NewAnnotations), nodes)]_vars

\* the names of every node below a record, in document order
RECURSIVE NodeNames(_, _)
NodeNames(spaces, i) ==
    IF i > Len(spaces) THEN <<>>
    ELSE <<NodeOf(spaces[i]).name>>
            \o NodeNames(NodeOf(spaces[i]).spaces, 1)
            \o NodeNames(spaces, i + 1)

\* C11, as claimed: every annotation a parseJson call adds for a record has
\* the record's own name (the file) as its path, and the titles of the
\* added annotations are the names of the nodes below the record.
C11_PathIsFile ==
    [][(ParseJsonStep /\ IsRecordLine(log'[Len(log')].line)) =>
          /\ \A i \in 1..Len(NewAnnotations) :
                NewAnnotations[i].path = log'[Len(log')].line.json.name
          /\ IsPermutation([i \in 1..Len(NewAnnotations) |-> NewAnnotations[i].title],
                           NodeNames(log'[Len(log')].line.json.spaces, 1))]_vars

\* the create requests sent so far: one per executeCheck call
Creates == SelectSeq(calls, LAMBDA c : c.api = "create")

\* the text main reports for exit code n
ExitCodeText(n) ==
    <<"rust-code-analysis-check had exited with the ", ToString(n), " exit code">>

\* C14, as claimed: executeCheck runs exactly once, after the last parseJson
\* call and whatever the exit code; once the cycle has ended, a non-zero
\* exit code of the tool is what the run fails with, in a message that
\* names the code.
C14_ExitCodeReported ==
    /\ [](pc = "done" =>
            /\ Len(Creates) = 1
            /\ RcaExitCode # 0 => failed = ExitCodeText(RcaExitCode))
    /\ [][pc # "stream" => log' = log]_vars

\* C15: on the fork fallback path every element of file_jsons is written to
\* standard output and the run is marked failed exactly when the exit code
\* of the tool is not 0, with the exit-code message and never with the
\* create error.
C15_ForkFailsOnExitCode ==
    (CreateFailed /\ env = "patch-1") =>
        /\ outcome = "returned"
        /\ Len(SelectSeq(stdout, LAMBDA e : e.msg.isJson)) = Len(file_jsons)
        /\ (failed # <<>>) <=> (RcaExitCode # 0)
        /\ RcaExitCode # 0 => failed = ExitCodeText(RcaExitCode)
        /\ RcaExitCode = 0 => failed = <<>>

C15_Witness ==
    /\ CreateFailed
    /\ env = "patch-1"
    /\ RcaExitCode = 101
    /\ failed = ExitCodeText(101)
    /\ Len(file_jsons) = 2
    /\ Len(stdout) = Len(ForkNotices) + 2

\* C17: the first request of a cycle is the only create; no update with
\* status=in_progress is sent after an update with status=completed; and at
\* most one request is unanswered at any time, exactly while the cycle waits.
C17_CallsOrdered ==
    /\ \A i \in 1..Len(calls) : (calls[i].api = "create") <=> (i = 1)
    /\ \A i \in 2..Len(calls) : \A j \in (i + 1)..Len(calls) :
          ~(calls[i].status = "completed" /\ calls[j].status = "in_progress")
    /\ Len(calls) - Len(replies) \in {0, 1}
    /\ (Len(calls) = Len(replies) + 1)
          <=> (pc \in {"awaitCreate", "awaitUpdate", "awaitCancel"})

C17_Witness ==
    /\ CycleEnded /\ AllResolved
    /\ Len(extracted) = 140
    /\ Len(Updates) = 3
    /\ Updates[1].status = "in_progress"
    /\ Updates[2].status = "in_progress"
    /\ Updates[3].status = "completed"

\* C18: when the create request succeeded and executeCheck has ended, some
\* update with status=completed and conclusion success or cancelled was sent.
C18_Finalised ==
    (CycleEnded /\ replies[1] = "resolved") =>
        \E i \in 1..Len(Updates) :
            /\ Updates[i].status = "completed"
            /\ Updates[i].conclusion \in {"success", "cancelled"}

C18_Witness ==
    /\ CycleEnded
    /\ FailedUpdate(2)
    /\ calls[2].status = "in_progress"
    /\ outcome = "threw"
    /\ Len(Updates) = 2

\* C19: when the request at position i (the (i-1)-th update) is rejected,
\* every earlier request had succeeded, the only request after it is the
\* cancellation, so the cycle sent i updates in all; no page is sent again,
\* and the annotations still in the list were sent in no page.
C19_NoRetry ==
    CycleEnded =>
        \A i \in 2..Len(replies) : FailedUpdate(i) =>
            /\ \A j \in 1..(i - 1) : replies[j] = "resolved"
            /\ Len(Updates) = i
            /\ Len(calls) = i + 1
            /\ IsCancellation(calls[i + 1])
            /\ "annotations" \notin DOMAIN calls[i + 1].output
            /\ Len(annotations) + Len(Concat(Pages)) = Len(extracted)
            /\ annotations = SubSeq(extracted, 1, Len(annotations))

C19_Witness ==
    /\ CycleEnded
    /\ FailedUpdate(3)
    /\ Len(extracted) = 120
    /\ Len(annotations) = 20
    /\ Len(Updates) = 3

\* C20: when the cancellation request is rejected, executeCheck rejects
\* with the cancellation's error, which is not the error of the rejected
\* update; the cancellation is the last request and the only cancellation.
C20_CancelErrorMasks ==
    (CycleEnded /\ IsCancellation(calls[Len(calls)])
                /\ replies[Len(replies)] = "rejected") =>
        /\ outcome = "threw"
        /\ thrown = HttpError(Len(calls))
        /\ caught = HttpError(Len(calls) - 1)
        /\ thrown # caught
        /\ Len(calls) = Len(replies)
        /\ Len(SelectSeq(calls, IsCancellation)) = 1
        /\ failed = <<"HttpError: request ", ToString(Len(calls))>>

C20_Witness ==
    /\ CycleEnded
    /\ Len(calls) = 4
    /\ IsCancellation(calls[4])
    /\ replies[4] = "rejected"
    /\ thrown = HttpError(4)

\* the lines parseJson accepted, in order
Accepted == SelectSeq(log, LAMBDA e : e.line.isJson /\ e.result = "returned")

\* the label the report shows for a name
DisplayName(name) == IF name = "<anonymous>" THEN "unnamed space" ELSE name

\* every node below a record in document order, as <<depth, label>>
RECURSIVE NodeLabels(_, _, _)
NodeLabels(spaces, i, depth) ==
    IF i > Len(spaces) THEN <<>>
    ELSE <<<<depth, DisplayName(NodeOf(spaces[i]).name)>>>>
            \o NodeLabels(NodeOf(spaces[i]).spaces, 1, depth + 1)
            \o NodeLabels(spaces, i + 1, depth)

\* the number of Spaces sections open at position i of a rendered block
SectionDepth(text, i) ==
    Cardinality({j \in 1..(i - 1) : text[j] = SpacesOpen})
        - Cardinality({j \in 1..(i - 1) : text[j] = SubspacesClose})

\* the sub-blocks of a rendered block in text order, as <<depth, label>>
SubBlocks(text) ==
    LET at == SelectSeq([i \in 1..Len(text) |-> i],
                        LAMBDA i : i > 1 /\ text[i - 1] = SpaceOpen)
    IN [k \in 1..Len(at) |-> <<SectionDepth(text, at[k]), text[at[k]]>>]

\* C12: file_metrics holds one block per accepted record, and the sub-blocks
\* of a block are the spaces below its record, each once, in document order
\* and at the nesting depth of its space; a record without spaces has no
\* Spaces section.
C12_NestedBlocks ==
    /\ Len(file_metrics) = Len(Accepted)
    /\ \A i \in 1..Len(file_metrics) :
          LET record == Accepted[i].line.json IN
          /\ SubBlocks(file_metrics[i]) = NodeLabels(record.spaces, 1, 1)
          /\ (Len(record.spaces) = 0) <=>
                (\A j \in 1..Len(file_metrics[i]) : file_metrics[i][j] # SpacesOpen)

C12_Witness ==
    /\ Len(file_metrics) = 2
    /\ SubBlocks(file_metrics[1]) =
          <<<<1, "outer">>, <<2, "unnamed space">>, <<2, "inner">>, <<1, "tail">>>>
    /\ SubBlocks(file_metrics[2]) = <<>>

\* C13, as claimed: no rendered block shows the anonymous-name sentinel,
\* whatever the level of the record that carries it, and file_jsons keeps
\* the names as they were parsed.
C13_NoRawSentinel ==
    /\ \A i \in 1..Len(file_metrics) : \A j \in 1..Len(file_metrics[i]) :
          file_metrics[i][j] # "<anonymous>"
    /\ \A i \in 1..Len(Accepted) :
          \E k \in 1..Len(file_jsons) : file_jsons[k] = Accepted[i].line.json

\* C21: the identifier the create request resolved with is the check_run_id
\* of every update of the cycle, cancellation included, and the cycle sends
\* one create request only, whatever happens to its updates.
C21_SameCheckRun ==
    /\ [](/\ Len(Creates) <= 1
          /\ \A i \in 1..Len(calls) : calls[i].api = "update" =>
                /\ replies[1] = "resolved"
                /\ checkRunId \in CheckRunIds
                /\ calls[i].check_run_id = checkRunId)
    /\ [][pc = "awaitCreate" /\ pc' # "done" => checkRunId' \in CheckRunIds]_vars
    /\ [][pc \notin {"stream", "awaitCreate"} =>
             checkRunId' = checkRunId /\ Len(Creates') = 1]_vars

C21_Witness ==
    /\ CycleEnded
    /\ FailedUpdate(3)
    /\ checkRunId = 1002
    /\ Len(Updates) = 3
    /\ Updates[1].status = "in_progress"
    /\ IsCancellation(Updates[3])
    /\ \A i \in 1..3 : Updates[i].check_run_id = 1002

\* C22: when executeCheck returns after every request succeeded, every
\* extracted annotation was sent in exactly one update (as often in the
\* pages as it was extracted) and this.annotations is empty.
C22_ConsumedOnce ==
    (CycleEnded /\ AllResolved /\ outcome = "returned") =>
        /\ annotations = <<>>
        /\ LET sent == Concat(Pages) IN
              /\ Len(sent) = Len(extracted)
              /\ \A x \in Range(extracted) : Count(sent, x) = Count(extracted, x)

C22_Witness ==
    /\ CycleEnded /\ AllResolved
    /\ outcome = "returned"
    /\ Len(extracted) = 71
    /\ Len(Pages) = 2
    /\ annotations = <<>>

\* the lines for which parseJson rendered a block: getFileMetrics needs an
\* object with metrics
Rendered == SelectSeq(log, LAMBDA e : e.line.isJson /\ Has(e.line.json, "metrics"))

\* the pieces of a report after its three header pieces
ReportBody(text) == SubSeq(text, 4, Len(text))

\* C23: every update of the Completed path carries the same text: the
\* header with the version label, then the blocks of file_metrics in order,
\* one per rendered top-level record, joined by the separator.
C23_SameReport ==
    \A i \in 1..Len(Updates) : ~IsCancellation(Updates[i]) =>
        LET text == Updates[i].output.text IN
        /\ Len(text) >= 3
        /\ text[1] = "## Info | rust-code-analysis-cli | "
        /\ text[2] = options.rca_version
        /\ text[3] = " | ## Results"
        /\ SelectSeq(ReportBody(text), LAMBDA piece : piece # "\n")
              = Concat(file_metrics)
        /\ Len(file_metrics) >= 1 =>
              Count(ReportBody(text), "\n") = Len(file_metrics) - 1
        /\ Len(file_metrics) = Len(Rendered)
        /\ \A k \in 1..Len(file_metrics) :
              file_metrics[k][2] = Interpolate(Rendered[k].line.json, "name")
        /\ text = Updates[1].output.text

C23_Witness ==
    /\ CycleEnded /\ AllResolved
    /\ Len(Updates) = 2
    /\ Len(file_metrics) = 2
    /\ file_metrics[1] # file_metrics[2]
    /\ Updates[1].status = "in_progress"
    /\ Updates[1].output.text = Updates[2].output.text
    /\ Count(Updates[2].output.text, "\n") = 1

\* the record of the last parseJson call has spaces to annotate
HasChildren(line) ==
    line.isJson /\ Has(line.json, "spaces") /\ Len(line.json.spaces) > 0

\* C24: a parseJson call builds no annotation from the top-level record
\* itself: a line without spaces adds none, and a record with spaces adds
\* at most one annotation per node below it, none with the record's own
\* name and lines.
C24_RootNotAnnotated ==
    [][ParseJsonStep =>
          LET line == log'[Len(log')].line IN
          /\ ~HasChildren(line) => annotations' = annotations
          /\ HasChildren(line) =>
                /\ Len(NewAnnotations) <= Len(NodeLines(line.json.spaces, 1))
                /\ \A i \in 1..Len(NewAnnotations) :
                      ~(/\ NewAnnotations[i].title = Prop(line.json, "name")
                        /\ NewAnnotations[i].start_line = Prop(line.json, "start_line")
                        /\ NewAnnotations[i].end_line = Prop(line.json, "end_line"))]_vars

C24_Witness ==
    /\ Len(log) = 2
    /\ log[1].line = JsonText(Flat(0))
    /\ log[2].line = JsonText(Nested)
    /\ log[2].result = "returned"
    /\ Len(file_metrics) = 2
    /\ Len(annotations) = 4
    /\ \A i \in 1..4 : annotations[i].title # "b.rs"

IsPrefix(a, b) == Len(a) <= Len(b) /\ a = SubSeq(b, 1, Len(a))

\* C25: a parseJson call appends its annotations after those of the earlier
\* records, in the pre-order of the record's tree: the annotations it adds
\* are the nodes below the record in document order, each space before its
\* subspaces and those before its next sibling, up to the node at which the
\* call threw, and all of them when it returned.
C25_PreOrder ==
    [][(ParseJsonStep /\ IsRecordLine(log'[Len(log')].line)) =>
          LET spaces == log'[Len(log')].line.json.spaces
              titles == [i \in 1..Len(NewAnnotations) |-> NewAnnotations[i].title]
          IN /\ annotations' = annotations \o NewAnnotations
             /\ IsPrefix(titles, NodeNames(spaces, 1))
             /\ IsPrefix(AnnotationLines(NewAnnotations), NodeLines(spaces, 1))
             /\ log'[Len(log')].result = "returned" =>
                   Len(NewAnnotations) = Len(NodeLines(spaces, 1))]_vars

C25_Witness ==
    /\ Len(log) = 2
    /\ log[1].line = JsonText(Flat(1))
    /\ log[2].line = JsonText(Nested)
    /\ [i \in 1..Len(annotations) |-> annotations[i].title]
          = <<"f", "outer", "<anonymous>", "inner", "tail">>

\* the names of the top-level blocks of a report, in text order
TopBlocks(text) ==
    LET at == SelectSeq([i \in 1..Len(text) |-> i],
                        LAMBDA i : i > 1 /\ text[i - 1] = FileOpen)
    IN [k \in 1..Len(at) |-> text[at[k]]]

\* C26: the report sent by metricsCheck has exactly one top-level block per
\* line that parseJson accepted, in stream order, whatever other lines came
\* between them, and the blocks are joined by the separator.
C26_OneBlockPerRecord ==
    \A i \in 1..Len(Updates) : ~IsCancellation(Updates[i]) =>
        LET text == Updates[i].output.text IN
        /\ Len(TopBlocks(text)) = Len(Accepted)
        /\ \A k \in 1..Len(Accepted) :
              TopBlocks(text)[k] = Accepted[k].line.json.name
        /\ Len(Accepted) >= 1 => Count(text, Separator) = Len(Accepted) - 1
        /\ Len(Accepted) = 0 => Count(text, Separator) = 0

C26_Witness ==
    /\ Len(log) = 2
    /\ ~log[1].line.isJson
    /\ log[2].line = JsonText(NestedTree)
    /\ Len(Updates) = 1
    /\ TopBlocks(Updates[1].output.text) = <<"e.rs">>

\* C27: a cycle, once executeCheck was called, writes to standard output
\* only after a rejected create request with GITHUB_HEAD_REF set; when
\* GITHUB_HEAD_REF is set and the create request succeeds, the cycle sends
\* its updates and writes nothing; no cycle both writes to standard output
\* and sends an update.
C27_FallbackOnlyOnCreateFailure ==
    /\ (Len(calls) >= 1 /\ stdout # <<>>) =>
          /\ CreateFailed
          /\ env \notin {"<unset>", ""}
          /\ Len(calls) = 1
    /\ (Len(replies) >= 1 /\ replies[1] = "resolved") =>
          /\ stdout = <<>>
          /\ Len(Updates) >= 1
    /\ ~(stdout # <<>> /\ Updates # <<>>)

C27_Witness ==
    /\ CycleEnded /\ AllResolved
    /\ env = "patch-1"
    /\ Len(file_jsons) = 2
    /\ Len(Updates) = 2
    /\ Updates[2].conclusion = "success"
    /\ stdout = <<>>

\* C28, as claimed: whatever lines parseJson was given, and whether its
\* calls returned or threw, file_jsons and file_metrics have the same length
\* and their i-th entries come from the same line.
C28_ListsAligned ==
    /\ Len(file_jsons) = Len(file_metrics)
    /\ \A i \in 1..Len(file_jsons) :
          /\ i <= Len(file_metrics)
          /\ file_metrics[i][2] = Interpolate(file_jsons[i], "name")

\* the four ways a cycle ends
Completed ==
    /\ outcome = "returned" /\ AllResolved
    /\ Len(calls) >= 2
    /\ calls[Len(calls)].status = "completed"
    /\ calls[Len(calls)].conclusion = "success"

Cancelled ==
    /\ outcome = "threw"
    /\ replies[1] = "resolved"
    /\ IsCancellation(calls[Len(calls)])

FallbackDumped == CreateFailed /\ outcome = "returned" /\ stdout # <<>>

CreationError == CreateFailed /\ outcome = "threw" /\ stdout = <<>>

\* C29: when every request is eventually answered, a cycle that started
\* ends; each request of allMetricsCheck leaves this.annotations shorter
\* than the getBucket call found it; and a cycle that has ended stays ended,
\* in exactly one of Completed, Cancelled, FallbackDumped and CreationError.
C29_Terminates ==
    /\ (pc # "stream") ~> (pc = "done")
    /\ [][(branch' = "all" /\ Len(calls') = Len(calls) + 1
             /\ ~IsCancellation(calls'[Len(calls')]))
            => Len(annotations') < Len(annotations)]_vars
    /\ [][pc = "done" => pc' = "done"]_vars
    /\ [](pc = "done" =>
             Cardinality({k \in 1..4 :
                 \/ k = 1 /\ Completed
                 \/ k = 2 /\ Cancelled
                 \/ k = 3 /\ FallbackDumped
                 \/ k = 4 /\ CreationError}) = 1)

C29_Witness ==
    /\ pc = "done"
    /\ Completed
    /\ Len(extracted) = 140
    /\ Len(Updates) = 3
    /\ annotations = <<>>

\* the positions of the cancellations among the requests
Cancellations == {i \in 1..Len(calls) : IsCancellation(calls[i])}

\* C30: a cycle whose create and updates all succeed sends no update with
\* conclusion=cancelled; any cycle sends at most one, after a rejected
\* update, and no request follows it.
C30_CancelOnceAndLast ==
    /\ (CycleEnded /\ AllResolved) => Cancellations = {}
    /\ Cardinality(Cancellations) <= 1
    /\ \A i \in Cancellations :
          /\ i = Len(calls)
          /\ i >= 3
          /\ replies[i - 1] = "rejected"

C30_Witness ==
    /\ CycleEnded
    /\ Len(extracted) = 0
    /\ Len(file_metrics) = 1
    /\ Cancellations = {3}
    /\ replies = <<"resolved", "rejected", "resolved">>

====
